---- MODULE Spec2Model ----
(***************************************************************************)
(* The two verification runners of the repository:                         *)
(*   verification/verify_ipad.py    verify_app()                           *)
(*   verification/verify_player.py  verify_audio_player(page) + main block *)
(* One behaviour is one run of one runner.  Every library call of the      *)
(* scripts is a step that either returns or raises; blocking calls take    *)
(* time, measured in milliseconds by `elapsed`.                            *)
(***************************************************************************)
EXTENDS Integers, Sequences, FiniteSets, TLC

VARIABLES
    runner,      \* which script runs: "ipad" or "player"
    cwd,         \* os.getcwd(): the absolute working directory, as components
    pc,          \* position in the script
    ip,          \* index of the current statement of the script body
    elapsed,     \* ms the current blocking call has been waiting
    playwright,  \* the sync_playwright() scope: "none", "running", "stopped"
    browser,     \* the launched browser: "none", "open", "closed"
    context,     \* the browser context (iPad runner): "none", "open"
    page,        \* the page: "none", "open"
    content,     \* what the loaded page shows: texts and visible heading levels
    exc,         \* the exception in flight, newest first, older ones as context
    out,         \* console output, in order
    files,       \* screenshot files written, in order
    log,         \* body statements that returned, in order, with the time they took
    raised,      \* every exception raised so far, in order
    status       \* exit status of the run: -1 while running, 0 clean, 1 error

vars == <<runner, cwd, pc, ip, elapsed, playwright, browser, context, page,
          content, exc, out, files, log, raised, status>>

(***************************************************************************)
(* Bounds of the model                                                     *)
(***************************************************************************)
Tick == 15000            \* granularity of the passage of time, in ms
MaxClock == 30000        \* the clock of a call without deadline stops here
MaxHeadingLevel == 2     \* heading levels the application may render

(***************************************************************************)
(* Literals of the scripts                                                 *)
(***************************************************************************)
RecentHeatTimeout == 10000   \* wait_for_selector(..., timeout=10000)
AnimationDelay == 500        \* wait_for_timeout(500)
DefaultTimeout == 30000      \* calls without a timeout argument: library default

URL == "http://localhost:3000"

Runners == {"ipad", "player"}
Cwds == {<<>>, <<"home", "repo">>}

Texts == {"Recent Heat", "Library", "Search"}
HeadingTag == <<"h1", "h2", "h3", "h4", "h5", "h6">>
Contents == [texts : SUBSET Texts, headings : SUBSET (1..MaxHeadingLevel)]
Blank == [texts |-> {}, headings |-> {}]

(***************************************************************************)
(* Paths                                                                   *)
(***************************************************************************)
NoPath == [abs |-> FALSE, parts |-> <<>>]
RelPath(parts) == [abs |-> FALSE, parts |-> parts]
AbsPath(parts) == [abs |-> TRUE, parts |-> parts]

\* a join that forgets the directory
join_dropping_dir(a, b) == b

\* os.path.join(a, b): b alone when b is absolute, else b below a
join(a, b) == IF b.abs THEN b ELSE [abs |-> a.abs, parts |-> a.parts \o b.parts]

(***************************************************************************)
(* Selectors                                                               *)
(***************************************************************************)
NoSel == [engine |-> "none", value |-> ""]
TextSel(t) == [engine |-> "text", value |-> t]
CssSel(tag) == [engine |-> "css", value |-> tag]

\* a selector that takes any element for a match
MatchesAnything(sel, c) == TRUE

\* a css selector that takes a heading of any level for a match
MatchesAnyHeading(sel, c) ==
    CASE sel.engine = "text" -> sel.value \in c.texts
      [] sel.engine = "css"  -> c.headings # {}
      [] OTHER -> FALSE

\* whether the page shows an element the selector picks
Matches(sel, c) ==
    CASE sel.engine = "text" -> sel.value \in c.texts
      [] sel.engine = "css"  -> \E l \in c.headings : HeadingTag[l] = sel.value
      [] OTHER -> FALSE

(***************************************************************************)
(* Statements of the script bodies                                         *)
(***************************************************************************)
Stmt(op, sel, ms, path, text) ==
    [op |-> op, sel |-> sel, ms |-> ms, path |-> path, text |-> text]

goto(url) == Stmt("goto", NoSel, DefaultTimeout, NoPath, url)
wait_for_selector(sel, timeout) == Stmt("wait_for_selector", sel, timeout, NoPath, "")
click(sel) == Stmt("click", sel, DefaultTimeout, NoPath, "")
wait_for_timeout(ms) == Stmt("wait_for_timeout", NoSel, ms, NoPath, "")
screenshot(path) == Stmt("screenshot", NoSel, 0, path, "")
print(text, path) == Stmt("print", NoSel, 0, path, text)

HomeIpad == RelPath(<<"verification", "home_ipad.png">>)
LibraryIpad == RelPath(<<"verification", "library_ipad.png">>)
SearchIpad == RelPath(<<"verification", "search_ipad.png">>)

\* the try block with the third screenshot written to the second one's path
verify_app_same_path ==
    << goto(URL),
       wait_for_selector(TextSel("Recent Heat"), RecentHeatTimeout),
       screenshot(HomeIpad),
       print("Home screenshot taken", NoPath),
       click(TextSel("Library")),
       wait_for_timeout(AnimationDelay),
       screenshot(LibraryIpad),
       print("Library screenshot taken", NoPath),
       click(TextSel("Search")),
       wait_for_timeout(AnimationDelay),
       screenshot(LibraryIpad),
       print("Search screenshot taken", NoPath) >>

\* the try block with the Library screenshot taken before the delay
verify_app_early_shot ==
    << goto(URL),
       wait_for_selector(TextSel("Recent Heat"), RecentHeatTimeout),
       screenshot(HomeIpad),
       print("Home screenshot taken", NoPath),
       click(TextSel("Library")),
       screenshot(LibraryIpad),
       wait_for_timeout(AnimationDelay),
       print("Library screenshot taken", NoPath),
       click(TextSel("Search")),
       wait_for_timeout(AnimationDelay),
       screenshot(SearchIpad),
       print("Search screenshot taken", NoPath) >>

\* the try block with the Home message printed before its screenshot
verify_app_print_first ==
    << goto(URL),
       wait_for_selector(TextSel("Recent Heat"), RecentHeatTimeout),
       print("Home screenshot taken", NoPath),
       screenshot(HomeIpad),
       click(TextSel("Library")),
       wait_for_timeout(AnimationDelay),
       screenshot(LibraryIpad),
       print("Library screenshot taken", NoPath),
       click(TextSel("Search")),
       wait_for_timeout(AnimationDelay),
       screenshot(SearchIpad),
       print("Search screenshot taken", NoPath) >>

\* the try block of verify_app
verify_app ==
    << goto(URL),
       wait_for_selector(TextSel("Recent Heat"), RecentHeatTimeout),
       screenshot(HomeIpad),
       print("Home screenshot taken", NoPath),
       click(TextSel("Library")),
       wait_for_timeout(AnimationDelay),
       screenshot(LibraryIpad),
       print("Library screenshot taken", NoPath),
       click(TextSel("Search")),
       wait_for_timeout(AnimationDelay),
       screenshot(SearchIpad),
       print("Search screenshot taken", NoPath) >>

\* the screenshot path of the player runner
HomePath(dir) == join(AbsPath(dir), RelPath(<<"verification", "home.png">>))

\* the body of verify_audio_player
verify_audio_player(dir) ==
    << goto(URL),
       wait_for_selector(CssSel("h1"), DefaultTimeout),
       screenshot(HomePath(dir)),
       print("Home screenshot taken at", HomePath(dir)) >>

Body == IF runner = "ipad" THEN verify_app ELSE verify_audio_player(cwd)
Cur == Body[ip]

(***************************************************************************)
(* Exceptions and control flow                                             *)
(***************************************************************************)
Exc(at, n, kind) == [at |-> at, ip |-> n, kind |-> kind]
NoExc == Exc("none", 0, "none")

\* no except clause: an error of the body goes straight to the finally clause
HandlerNoExcept(r, at) ==
    CASE at = "start" -> "done"
      [] at \in {"launch", "new_context", "new_page"} -> "stop"
      [] at = "body" -> "finally"
      [] at = "finally" -> "stop"
      [] OTHER -> "done"

\* the try statement opened right after the launch
HandlerTryFromLaunch(r, at) ==
    CASE at = "start" -> "done"
      [] at = "launch" -> "stop"
      [] at \in {"new_context", "new_page", "body"} ->
            IF r = "ipad" THEN "except" ELSE "finally"
      [] at = "finally" -> "stop"
      [] OTHER -> "done"

\* no finally clause in the player runner: an error of the body leaves the with block
HandlerNoFinally(r, at) ==
    CASE at = "start" -> "done"
      [] at \in {"launch", "new_context", "new_page"} -> "stop"
      [] at = "body" -> IF r = "ipad" THEN "except" ELSE "stop"
      [] at = "finally" -> "stop"
      [] OTHER -> "done"

\* where control goes when the statement at `at` raises
Handler(r, at) ==
    CASE at = "start" -> "done"
      [] at \in {"launch", "new_context", "new_page"} -> "stop"
      [] at = "body" -> IF r = "ipad" THEN "except" ELSE "finally"
      [] at = "finally" -> "stop"
      [] at = "stop" -> "done"
      [] OTHER -> "done"

Waiting == {"goto", "wait_for_selector", "click"}
Blocking == Waiting \cup {"wait_for_timeout"}

\* every call waits without deadline
NoDeadline(s) == 0

\* the deadline of a waiting call, in ms; 0 is no deadline
Deadline(s) == s.ms

TimedOut(e, d) == d > 0 /\ e >= d

\* the time after which the clock of the call at s no longer advances
Horizon(s) ==
    IF s.op = "wait_for_timeout" THEN s.ms
    ELSE IF Deadline(s) > 0 THEN Deadline(s) ELSE MaxClock

Min(a, b) == IF a < b THEN a ELSE b

ExitStatus(chain) == IF chain = <<>> THEN 0 ELSE 1

Info(text, path) == [kind |-> "info", text |-> text, path |-> path, e |-> NoExc]
ErrorMsg(e) == [kind |-> "error", text |-> "Error:", path |-> NoPath, e |-> e]

(***************************************************************************)
(* Init                                                                    *)
(***************************************************************************)
Init ==
    /\ runner \in Runners
    /\ cwd \in Cwds
    /\ pc = "start"
    /\ ip = 0
    /\ elapsed = 0
    /\ playwright = "none"
    /\ browser = "none"
    /\ context = "none"
    /\ page = "none"
    /\ content = Blank
    /\ exc = <<>>
    /\ out = <<>>
    /\ files = <<>>
    /\ log = <<>>
    /\ raised = <<>>
    /\ status = -1

(***************************************************************************)
(* Steps                                                                   *)
(***************************************************************************)
\* the statement at `at` raises
Throw(at, n, kind) ==
    /\ exc' = <<Exc(at, n, kind)>> \o exc
    /\ raised' = Append(raised, Exc(at, n, kind))
    /\ pc' = Handler(runner, at)
    /\ status' = IF Handler(runner, at) = "done" THEN 1 ELSE status

\* the current body statement returned
Advance ==
    /\ elapsed' = 0
    /\ IF ip < Len(Body)
       THEN ip' = ip + 1 /\ pc' = pc
       ELSE ip' = ip /\ pc' = "finally"

Returned == log' = Append(log, [n |-> ip, call |-> Cur, waited |-> elapsed])

\* with sync_playwright() as p:
Start ==
    /\ pc = "start"
    /\ \/ /\ playwright' = "running"
          /\ pc' = "launch"
          /\ UNCHANGED <<exc, raised, status>>
       \/ /\ Throw("start", 0, "Error")
          /\ UNCHANGED playwright
    /\ UNCHANGED <<runner, cwd, ip, elapsed, browser, context, page, content,
                   out, files, log>>

\* browser = p.chromium.launch(headless=True)
Launch ==
    /\ pc = "launch"
    /\ \/ /\ browser' = "open"
          /\ pc' = IF runner = "ipad" THEN "new_context" ELSE "new_page"
          /\ UNCHANGED <<exc, raised, status>>
       \/ /\ Throw("launch", 0, "Error")
          /\ UNCHANGED browser
    /\ UNCHANGED <<runner, cwd, ip, elapsed, playwright, context, page, content,
                   out, files, log>>

\* context = browser.new_context(viewport=..., user_agent=...)
NewContext ==
    /\ pc = "new_context"
    /\ \/ /\ context' = "open"
          /\ pc' = "new_page"
          /\ UNCHANGED <<exc, raised, status>>
       \/ /\ Throw("new_context", 0, "Error")
          /\ UNCHANGED context
    /\ UNCHANGED <<runner, cwd, ip, elapsed, playwright, browser, page, content,
                   out, files, log>>

\* page = context.new_page()  /  page = browser.new_page()
NewPage ==
    /\ pc = "new_page"
    /\ \/ /\ page' = "open"
          /\ pc' = "body"
          /\ ip' = 1
          /\ UNCHANGED <<exc, raised, status>>
       \/ /\ Throw("new_page", 0, "Error")
          /\ UNCHANGED <<page, ip>>
    /\ UNCHANGED <<runner, cwd, elapsed, playwright, browser, context, content,
                   out, files, log>>

\* time passes while a blocking call waits
Clock ==
    /\ pc = "body"
    /\ Cur.op \in Blocking
    /\ elapsed < Horizon(Cur)
    /\ elapsed' = Min(elapsed + Tick, Horizon(Cur))
    /\ UNCHANGED <<runner, cwd, pc, ip, playwright, browser, context, page,
                   content, exc, out, files, log, raised, status>>

\* the application changes what the page shows while a call on the page waits
Render ==
    /\ pc = "body"
    /\ Cur.op \in Blocking \ {"goto"}
    /\ content' \in Contents \ {content}
    /\ UNCHANGED <<runner, cwd, pc, ip, elapsed, playwright, browser, context,
                   page, exc, out, files, log, raised, status>>

\* a waiting call reaches its deadline with nothing to return for: TimeoutError
Timeout ==
    /\ pc = "body"
    /\ Cur.op \in Waiting
    /\ TimedOut(elapsed, Deadline(Cur))
    /\ Cur.op = "goto" \/ ~Matches(Cur.sel, content)
    /\ Throw("body", ip, "TimeoutError")
    /\ UNCHANGED <<runner, cwd, ip, elapsed, playwright, browser, context, page,
                   content, out, files, log>>

\* a blocking call fails before it returns (connection refused, page crashed, ...)
Fail ==
    /\ pc = "body"
    /\ Cur.op \in Blocking
    /\ Throw("body", ip, "Error")
    /\ UNCHANGED <<runner, cwd, ip, elapsed, playwright, browser, context, page,
                   content, out, files, log>>

\* page.goto("http://localhost:3000") returns: the application answered
Goto ==
    /\ pc = "body"
    /\ Cur.op = "goto"
    /\ ~TimedOut(elapsed, Deadline(Cur))
    /\ content' \in Contents
    /\ Returned
    /\ Advance
    /\ UNCHANGED <<runner, cwd, playwright, browser, context, page, exc, out,
                   files, raised, status>>

\* page.wait_for_selector(...) returns: the element is there
WaitForSelector ==
    /\ pc = "body"
    /\ Cur.op = "wait_for_selector"
    /\ Matches(Cur.sel, content)
    /\ Returned
    /\ Advance
    /\ UNCHANGED <<runner, cwd, playwright, browser, context, page, content,
                   exc, out, files, raised, status>>

\* page.click(...) returns: the element was there and was clicked
Click ==
    /\ pc = "body"
    /\ Cur.op = "click"
    /\ Matches(Cur.sel, content)
    /\ Returned
    /\ Advance
    /\ UNCHANGED <<runner, cwd, playwright, browser, context, page, content,
                   exc, out, files, raised, status>>

\* page.wait_for_timeout(500) returns once the time is over
WaitForTimeout ==
    /\ pc = "body"
    /\ Cur.op = "wait_for_timeout"
    /\ elapsed >= Cur.ms
    /\ Returned
    /\ Advance
    /\ UNCHANGED <<runner, cwd, playwright, browser, context, page, content,
                   exc, out, files, raised, status>>

\* page.screenshot(path=...) writes the file, or raises and writes nothing
Screenshot ==
    /\ pc = "body"
    /\ Cur.op = "screenshot"
    /\ \/ /\ files' = Append(files, Cur.path)
          /\ Returned
          /\ Advance
          /\ UNCHANGED <<exc, raised, status>>
       \/ /\ Throw("body", ip, "Error")
          /\ UNCHANGED <<files, log, ip, elapsed>>
    /\ UNCHANGED <<runner, cwd, playwright, browser, context, page, content, out>>

\* print("... screenshot taken")
ConsolePrint ==
    /\ pc = "body"
    /\ Cur.op = "print"
    /\ out' = Append(out, Info(Cur.text, Cur.path))
    /\ Returned
    /\ Advance
    /\ UNCHANGED <<runner, cwd, playwright, browser, context, page, content,
                   exc, files, raised, status>>

\* except Exception as e: print(f"Error: {e}")
Except ==
    /\ pc = "except"
    /\ out' = Append(out, ErrorMsg(Head(exc)))
    /\ exc' = Tail(exc)
    /\ pc' = "finally"
    /\ UNCHANGED <<runner, cwd, ip, elapsed, playwright, browser, context, page,
                   content, files, log, raised, status>>

\* finally: browser.close().  "closed" records that close() was called on the
\* browser; when the call raises, its error is in flight as well.
Close ==
    /\ pc = "finally"
    /\ browser' = "closed"
    /\ \/ /\ pc' = "stop"
          /\ UNCHANGED <<exc, raised, status>>
       \/ Throw("finally", 0, "Error")
    /\ UNCHANGED <<runner, cwd, ip, elapsed, playwright, context, page, content,
                   out, files, log>>

\* the end of the with block, then the end of the run
Stop ==
    /\ pc = "stop"
    /\ playwright' = "stopped"
    /\ \/ /\ pc' = "done"
          /\ status' = ExitStatus(exc)
          /\ UNCHANGED <<exc, raised>>
       \/ Throw("stop", 0, "Error")
    /\ UNCHANGED <<runner, cwd, ip, elapsed, browser, context, page, content,
                   out, files, log>>

Next ==
    \/ Start
    \/ Launch
    \/ NewContext
    \/ NewPage
    \/ Clock
    \/ Render
    \/ Timeout
    \/ Fail
    \/ Goto
    \/ WaitForSelector
    \/ Click
    \/ WaitForTimeout
    \/ Screenshot
    \/ ConsolePrint
    \/ Except
    \/ Close
    \/ Stop

Spec == Init /\ [][Next]_vars

\* what the library and the interpreter do on their own: time passes, deadlines
\* and timers fire, a wait returns once its element is there, and calls that
\* wait for nothing return or raise.  That the application answers, or shows
\* an element, is never assumed.
Scheduled ==
    \/ Start
    \/ Launch
    \/ NewContext
    \/ NewPage
    \/ Clock
    \/ Timeout
    \/ WaitForSelector
    \/ Click
    \/ WaitForTimeout
    \/ Screenshot
    \/ ConsolePrint
    \/ Except
    \/ Close
    \/ Stop

FairSpec == Spec /\ WF_vars(Scheduled)

Done == pc = "done"

(***************************************************************************)
(* What a run has done so far                                              *)
(***************************************************************************)
Ipad == runner = "ipad"
Player == runner = "player"

\* statement n of the body raised / returned
RaisedAt(n) == \E i \in DOMAIN raised : raised[i].at = "body" /\ raised[i].ip = n
ReturnedAt(n) == \E k \in DOMAIN log : log[k].n = n

InFlight(e) == \E i \in DOMAIN exc : exc[i] = e

Errors == Cardinality({i \in DOMAIN out : out[i].kind = "error"})
Infos == Cardinality({i \in DOMAIN out : out[i].kind = "info"})

Written(path) == \E i \in DOMAIN files : files[i] = path

IsPrefix(s, t) == Len(s) <= Len(t) /\ \A i \in DOMAIN s : s[i] = t[i]

IpadShots == <<HomeIpad, LibraryIpad, SearchIpad>>

(***************************************************************************)
(* C1                                                                      *)
(***************************************************************************)
\* C1: in both runners, a run that launched a browser never ends without
\* having closed it, whichever step after the launch failed.
C1_LaunchedBrowserIsClosed ==
    Done /\ browser # "none" => browser = "closed"

(***************************************************************************)
(* C2                                                                      *)
(***************************************************************************)
\* C2: in the iPad runner an error raised by a statement of the try block
\* (goto, wait, click, delay, screenshot) is caught: it goes to the except
\* clause, exactly one error message is printed, which is its own, it is not
\* in flight afterwards, the browser is closed once the finally clause has
\* run, and no statement after the failed one runs.
C2_BodyErrorIsCaught ==
    Ipad =>
        \A i \in DOMAIN raised :
            raised[i].at = "body" =>
                /\ Len(log) = raised[i].ip - 1
                /\ \A k \in DOMAIN log : log[k].n < raised[i].ip
                /\ \/ pc = "except" /\ exc = <<raised[i]>> /\ Errors = 0
                   \/ /\ pc \in {"finally", "stop", "done"}
                      /\ Errors = 1
                      /\ out[Len(out)] = ErrorMsg(raised[i])
                      /\ ~InFlight(raised[i])
                /\ pc \in {"stop", "done"} => browser = "closed"

C2_Witness ==
    /\ Ipad /\ Done
    /\ raised = <<Exc("body", 5, "TimeoutError")>>
    /\ Errors = 1
    /\ browser = "closed"
    /\ status = 0

(***************************************************************************)
(* C3                                                                      *)
(***************************************************************************)
\* C3 as stated: every run of the iPad runner ends with exit status 0,
\* whichever step from the browser launch on failed.
C3_AlwaysExitsZero ==
    Ipad /\ Done /\ playwright # "none" => status = 0

\* C3 as amended: a run of the iPad runner ends with exit status 0 exactly
\* when nothing was raised outside the try block; an error inside it never
\* changes the exit status.
C3_ZeroIffNothingRaisedOutsideTry ==
    Ipad /\ Done =>
        (status = 0 <=> \A i \in DOMAIN raised : raised[i].at = "body")

C3_Witness ==
    /\ Ipad /\ Done
    /\ RaisedAt(7)
    /\ files = <<HomeIpad>>
    /\ status = 0

(***************************************************************************)
(* C4                                                                      *)
(***************************************************************************)
\* C4: in the player runner an error of the navigation or of the wait is
\* not handled: nothing is printed for it, it stays in flight, the close
\* runs before the run leaves the with block, the run ends with exit status
\* 1, and no screenshot is written.
C4_PlayerErrorPropagatesAfterClose ==
    Player =>
        \A i \in DOMAIN raised :
            raised[i].at = "body" /\ raised[i].ip \in {1, 2} =>
                /\ files = <<>>
                /\ out = <<>>
                /\ InFlight(raised[i])
                /\ \/ pc = "finally" /\ browser = "open"
                   \/ pc \in {"stop", "done"} /\ browser = "closed"
                /\ Done => status = 1

C4_Witness ==
    /\ Player /\ Done
    /\ raised = <<Exc("body", 2, "TimeoutError")>>
    /\ browser = "closed"
    /\ status = 1
    /\ files = <<>>

(***************************************************************************)
(* C5                                                                      *)
(***************************************************************************)
\* C5: in the iPad runner, when the navigation fails, or "Recent Heat" is
\* not shown when the 10-second wait ends, no screenshot is written, one
\* error message is printed and the run ends with the browser closed.  The
\* run gets past the wait only with "Recent Heat" shown, and the wait times
\* out at 10 seconds.
C5_NoHomeViewNoScreenshot ==
    Ipad =>
        /\ RaisedAt(1) \/ RaisedAt(2) =>
              /\ files = <<>>
              /\ Done => Errors = 1 /\ browser = "closed"
        /\ pc = "body" /\ ip = 3 => "Recent Heat" \in content.texts
        /\ pc = "except" /\ exc = <<Exc("body", 2, "TimeoutError")>> =>
              elapsed = RecentHeatTimeout /\ "Recent Heat" \notin content.texts

C5_Witness ==
    /\ Ipad /\ Done
    /\ ReturnedAt(1)
    /\ raised = <<Exc("body", 2, "TimeoutError")>>
    /\ "Recent Heat" \notin content.texts
    /\ files = <<>>
    /\ Errors = 1
    /\ browser = "closed"

ExpectedHome == AbsPath(cwd \o <<"verification", "home.png">>)

C8_EveryRunEnds ==
    /\ <>Done
    /\ [](elapsed <= DefaultTimeout)

C8_Witness ==
    /\ Done
    /\ Player
    /\ raised = <<Exc("body", 2, "TimeoutError")>>
    /\ elapsed = DefaultTimeout

(***************************************************************************)
(* C9                                                                      *)
(***************************************************************************)
\* the statement that returned as the k-th and wrote `path` came right after
\* a delay of at least 500 ms that came right after the click on `sel`
AfterClickAndDelay(k, sel) ==
    /\ k >= 3
    /\ log[k - 2].call = click(sel)
    /\ log[k - 1].call.op = "wait_for_timeout"
    /\ log[k - 1].waited >= AnimationDelay

\* C9: in the iPad runner library_ipad.png is written only right after the
\* click on "Library" and a completed 500 ms delay, search_ipad.png only
\* right after the click on "Search" and a completed 500 ms delay, and the
\* click on "Search" comes only after library_ipad.png was written.
C9_TabScreenshotAfterClickAndDelay ==
    Ipad =>
        /\ \A i \in DOMAIN files :
              \E k \in DOMAIN log : log[k].call = screenshot(files[i])
        /\ \A k \in DOMAIN log :
              /\ log[k].call = screenshot(LibraryIpad) =>
                    AfterClickAndDelay(k, TextSel("Library"))
              /\ log[k].call = screenshot(SearchIpad) =>
                    AfterClickAndDelay(k, TextSel("Search"))
              /\ log[k].call = click(TextSel("Search")) =>
                    /\ Written(LibraryIpad)
                    /\ \E j \in 1..(k - 1) : log[j].call = screenshot(LibraryIpad)

C9_Witness ==
    /\ Ipad
    /\ files = IpadShots
    /\ Len(log) = 11

(***************************************************************************)
(* C10                                                                     *)
(***************************************************************************)
\* C10: in the iPad runner the screenshots written so far are a prefix of
\* (home, library, search), there are never more "screenshot taken" messages
\* than screenshots, at most one error message is printed, and no screenshot
\* is written once an error message is printed or the browser is closed.
C10_State ==
    Ipad =>
        /\ IsPrefix(files, IpadShots)
        /\ Infos <= Len(files)
        /\ Errors <= 1

C10_ScreenshotsArePrefix ==
    /\ []C10_State
    /\ [][Ipad /\ (Errors > 0 \/ browser = "closed") => files' = files]_vars

C10_Witness ==
    /\ Ipad /\ Done
    /\ files = <<HomeIpad, LibraryIpad>>
    /\ Infos = 2
    /\ Errors = 1
    /\ browser = "closed"

====
